---- MODULE Spec2Model ----
(***************************************************************************)
(* Snake Ghost: the Snake entity (entities/Snake.ts) and the Game          *)
(* orchestrator (main.ts) as a state machine.                              *)
(*                                                                         *)
(* Two specifications share the variables:                                 *)
(*   Spec       the Game: key events, update(deltaTime), resetGame() and   *)
(*              eat() on the snake handed out by getSnake();               *)
(*   SnakeSpec  the Snake class alone: setDirection, eat, move, reset      *)
(*              called in any order on a freshly constructed snake.        *)
(*                                                                         *)
(* Coordinates are JavaScript values: a number, NaN or undefined.          *)
(* resetGame() calls snake.reset() without arguments, so both parameters   *)
(* of reset are undefined there and `startX - 1` is NaN.                   *)
(***************************************************************************)
EXTENDS Integers, Sequences, FiniteSets, TLC

(***************************************************************************)
(* Bounds of the model.                                                    *)
(***************************************************************************)
\* ticks (updates that reach the move interval) explored in Spec
MaxTicks == 7
\* eat() calls since construction or the last reset
MaxEats == 2
\* move() calls explored in SnakeSpec
MaxMoves == 4
MaxFoodTicks == 4
MaxNow == 200        \* the clock stops advancing once it is here (LoopSpec)
MaxFrames == 4       \* handles requestAnimationFrame gives out (LoopSpec)
MaxDepth == 2        \* calls of loop() in progress at once (LoopSpec)
MaxIdleTicks == 10   \* ticks of a game left without input (IdleSpec)

(***************************************************************************)
(* Program constants.                                                      *)
(***************************************************************************)
SNAKE_MOVE_INTERVAL == 200
GAME_WIDTH == 20
GAME_HEIGHT == 15

Directions == {"up", "down", "left", "right"}

\* pendingDirection: string | null
null == "null"

\* event.key values: the four mapped keys, and a key KEY_MAPPINGS lacks
Keys == {"ArrowUp", "ArrowDown", "ArrowLeft", "ArrowRight", "Enter"}

\* update(deltaTime): deltaTime is in seconds; the values here are written in
\* thousandths of a second (100 = 0.1 s, the GameLoop's cap; 250 = 0.25 s)
DeltaTimes == {100, 250}

\* the deltaTime of the update calls of a game left without input, in
\* thousandths of a second: below the move interval, above it, and above
\* twice the interval
IdleDeltaTimes == {50, 100, 150, 250, 450}

\* new Snake(startX, startY) in SnakeSpec
StartPositions == {<<10, 5>>, <<2, 0>>}

\* checkBoundaryCollision(gameWidth, gameHeight) in SnakeSpec: the game's grid
\* and two smaller ones
GridSizes == {<<20, 15>>, <<11, 6>>, <<3, 1>>}

\* respawn(gameWidth, gameHeight, snakeBody) in FoodClassSpec: grids small
\* enough for every sequence of gameWidth * gameHeight samples
SmallGrids == {<<3, 1>>, <<2, 2>>}

\* the time, in ms, that passes between two readings of performance.now()
ClockSteps == {50, 150}

\* the cells Math.random() picks in FoodSpec; also the cells the food is put on
RandomCells == {<<10, 5>>, <<11, 5>>, <<12, 5>>, <<10, 4>>}

(***************************************************************************)
(* JavaScript values and the operators the code applies to them.           *)
(***************************************************************************)
Num(n) == [t |-> "number", v |-> n]
NaN == [t |-> "NaN", v |-> 0]
undefined == [t |-> "undefined", v |-> 0]

\* a + n, a - n for a number literal n: undefined and NaN give NaN
JSAdd(a, n) == IF a.t = "number" THEN Num(a.v + n) ELSE NaN

\* a === b: NaN is not equal to anything, itself included
JSStrictEquals(a, b) == a.t # "NaN" /\ b.t # "NaN" /\ a = b

\* a < n: false when a is NaN or undefined (ToNumber(undefined) is NaN)
JSLess(a, n) == a.t = "number" /\ a.v < n

\* a >= n: false when a is NaN or undefined
JSGreaterEq(a, n) == a.t = "number" /\ a.v >= n

Point(x, y) == [x |-> x, y |-> y]

\* segment.x === p.x && segment.y === p.y
SamePoint(p, q) == JSStrictEquals(p.x, q.x) /\ JSStrictEquals(p.y, q.y)

(***************************************************************************)
(* State.                                                                  *)
(***************************************************************************)
VARIABLES
  body,              \* Snake.body: sequence of points, head first
  direction,         \* Snake.direction
  growthPending,     \* Snake.growthPending
  food,              \* Food.position (null in a Game without food)
  gameOver,          \* Game.gameOver
  pendingDirection,  \* Game.pendingDirection
  lastMoveTime,      \* Game.lastMoveTime, in milliseconds
  lastOp,            \* the call that produced this state, with its arguments
  ticks,             \* ticks fired so far
  eats,              \* eat() calls since construction or the last reset
  moves,             \* direct move() calls so far (SnakeSpec)
  state,             \* GameLoop.state: isRunning, isPaused, lastFrameTime,
                     \* deltaTime (times in ms)
  animationFrameId,  \* GameLoop.animationFrameId; 0 for null (handles are
                     \* 1, 2, ...)
  frames,            \* the frame callbacks scheduled and not yet fired
  nextFrameId,       \* the handle the next requestAnimationFrame returns
  now,               \* performance.now()
  stack,             \* the callbacks in progress, innermost first
  resumedAt,         \* now at the last resume() of a running loop, -1 if
                     \* there was none
  document,          \* the page: whether getElementById finds the canvas
                     \* and whether its getContext('2d') gives a context
  gameLoop           \* Game.gameLoop: "GameLoop" once the constructor of
                     \* the Game has made it, "undefined" before and without

vars == <<body, direction, growthPending, food, gameOver, pendingDirection,
          lastMoveTime, lastOp, ticks, eats, moves, state, animationFrameId,
          frames, nextFrameId, now, stack, resumedAt, document, gameLoop>>

\* what the calls of the GameLoop leave alone
gameVars == <<body, direction, growthPending, food, gameOver, pendingDirection,
              lastMoveTime, ticks, eats, moves, document, gameLoop>>

\* what the calls of the Game, the Snake and the Food leave alone
loopVars == <<state, animationFrameId, frames, nextFrameId, now, stack,
              resumedAt, document, gameLoop>>

\* a call and its arguments; for update also what the call found queued and
\* the direction the snake had (oldDirection in applyPendingDirectionChange);
\* for handleKeyPress whether it replaced another queued direction; for the
\* collision checks of the Snake the value returned; for an update that respawns
\* the food whether the attempts ran out; for respawn the samples
\* Math.random() held ready (draws) and the number of them used (attempts);
\* for the calls and frames of the GameLoop what isRunning and isPaused were,
\* the callback the call came from, the callback the step invoked (with
\* deltaTime and the time elapsed since lastFrameTime) and whether it
\* scheduled a frame; for start() and stop() of the Game whether the call threw
Op(name) == [name |-> name, key |-> "", deltaTime |-> 0, newDirection |-> "",
             startX |-> undefined, startY |-> undefined,
             pendingDirection |-> null, oldDirection |-> "",
             overwrote |-> FALSE,
             gameWidth |-> 0, gameHeight |-> 0, result |-> FALSE,
             exhausted |-> FALSE, attempts |-> 0, draws |-> <<>>,
             wasRunning |-> FALSE, wasPaused |-> FALSE, inCallback |-> "",
             invoked |-> "", scheduled |-> FALSE, elapsed |-> 0,
             threw |-> FALSE]

(***************************************************************************)
(* GameLoop (core/gameLoop.ts): the state its constructor sets, with the   *)
(* clock at 0 and no frame scheduled.  The loop is made on its own, as in  *)
(* new Game(false) and in the tests of the GameLoop: no canvas is looked   *)
(* up and no Game holds the loop.                                          *)
(***************************************************************************)
GameLoopConstructed ==
  /\ document = [canvasElement |-> FALSE, context |-> FALSE]
  /\ gameLoop = "undefined"
  /\ state = [isRunning |-> FALSE, isPaused |-> FALSE, lastFrameTime |-> 0,
              deltaTime |-> 0]
  /\ animationFrameId = 0
  /\ frames = {}
  /\ nextFrameId = 1
  /\ now = 0
  /\ stack = <<>>
  /\ resumedAt = -1

(***************************************************************************)
(* Snake (entities/Snake.ts).                                              *)
(***************************************************************************)
createInitialBody(startX, startY) ==
  << Point(startX, startY),
     Point(JSAdd(startX, -1), startY),
     Point(JSAdd(startX, -2), startY) >>

getHead(b) == b[1]

getDirectionVector(d) ==
  CASE d = "right" -> [x |-> 1, y |-> 0]
    [] d = "left" -> [x |-> -1, y |-> 0]
    [] d = "up" -> [x |-> 0, y |-> -1]
    [] d = "down" -> [x |-> 0, y |-> 1]
    [] OTHER -> [x |-> 1, y |-> 0]

\* mutant: only the horizontal reversals are recognised
isOppositeDirection_HorizontalOnly(currentDir, newDir) ==
  \/ (currentDir = "right" /\ newDir = "left")
  \/ (currentDir = "left" /\ newDir = "right")

isOppositeDirection(currentDir, newDir) ==
  \/ (currentDir = "right" /\ newDir = "left")
  \/ (currentDir = "left" /\ newDir = "right")
  \/ (currentDir = "up" /\ newDir = "down")
  \/ (currentDir = "down" /\ newDir = "up")

\* the direction after setDirection(newDirection) on a snake heading d
setDirection(d, newDirection) ==
  IF isOppositeDirection(d, newDirection) THEN d ELSE newDirection

\* head + direction vector, as checkSelfCollision and checkBoundaryCollision
\* compute it
nextHeadPosition(b, d) ==
  LET head == getHead(b)
      vector == getDirectionVector(d)
  IN Point(JSAdd(head.x, vector.x), JSAdd(head.y, vector.y))

\* mutant: the tail is left out of the comparison
checkSelfCollision_SkipsTail(b, d) ==
  LET next == nextHeadPosition(b, d)
  IN \E i \in 2..(Len(b) - 1) : SamePoint(b[i], next)

checkSelfCollision(b, d) ==
  LET next == nextHeadPosition(b, d)
  IN \E i \in 2..Len(b) : SamePoint(b[i], next)

\* mutant: the right and bottom limits are compared with > instead of >=
checkBoundaryCollision_OffByOne(b, d, gameWidth, gameHeight) ==
  LET next == nextHeadPosition(b, d)
  IN \/ JSLess(next.x, 0)
     \/ JSGreaterEq(next.x, gameWidth + 1)
     \/ JSLess(next.y, 0)
     \/ JSGreaterEq(next.y, gameHeight + 1)

checkBoundaryCollision(b, d, gameWidth, gameHeight) ==
  LET next == nextHeadPosition(b, d)
  IN \/ JSLess(next.x, 0)
     \/ JSGreaterEq(next.x, gameWidth)
     \/ JSLess(next.y, 0)
     \/ JSGreaterEq(next.y, gameHeight)

\* mutant: reset puts the body back and keeps the direction
reset_KeepsDirection(startX, startY) ==
  [body |-> createInitialBody(startX, startY),
   direction |-> direction,
   growthPending |-> 0]

\* the snake after reset(startX, startY)
reset(startX, startY) ==
  [body |-> createInitialBody(startX, startY),
   direction |-> "right",
   growthPending |-> 0]

\* mutant: eat() sets a flag instead of counting
eat_SetsFlag(g) == 1

\* growthPending after eat()
eat(g) == g + 1

\* mutant: a move to the right advances two cells
newHead_TwoCellsRight(b, d) ==
  CASE d = "left" -> Point(JSAdd(getHead(b).x, -1), getHead(b).y)
    [] d = "up" -> Point(getHead(b).x, JSAdd(getHead(b).y, -1))
    [] d = "down" -> Point(getHead(b).x, JSAdd(getHead(b).y, 1))
    [] OTHER -> Point(JSAdd(getHead(b).x, 2), getHead(b).y)

\* the new head move() computes (the switch on this.direction)
newHead(b, d) ==
  CASE d = "right" -> Point(JSAdd(getHead(b).x, 1), getHead(b).y)
    [] d = "left" -> Point(JSAdd(getHead(b).x, -1), getHead(b).y)
    [] d = "up" -> Point(getHead(b).x, JSAdd(getHead(b).y, -1))
    [] d = "down" -> Point(getHead(b).x, JSAdd(getHead(b).y, 1))
    [] OTHER -> Point(JSAdd(getHead(b).x, 1), getHead(b).y)

\* mutant: the tail is always removed (move() as it was before growth existed)
move_AlwaysPops(b, d, g) ==
  LET unshifted == <<newHead(b, d)>> \o b
  IN [body |-> SubSeq(unshifted, 1, Len(unshifted) - 1), growthPending |-> g]

\* mutant: a pending growth keeps the tail but is never counted down
move_KeepsCounter(b, d, g) ==
  LET unshifted == <<newHead(b, d)>> \o b
  IN IF g > 0
       THEN [body |-> unshifted, growthPending |-> g]
       ELSE [body |-> SubSeq(unshifted, 1, Len(unshifted) - 1),
             growthPending |-> g]

\* body and growthPending after move()
move(b, d, g) ==
  LET unshifted == <<newHead(b, d)>> \o b
  IN IF g > 0
       THEN [body |-> unshifted, growthPending |-> g - 1]
       ELSE [body |-> SubSeq(unshifted, 1, Len(unshifted) - 1),
             growthPending |-> g]

(***************************************************************************)
(* Food (entities/Food.ts). A Food is its position.                        *)
(***************************************************************************)
\* setPosition(x, y)
setPosition(x, y) == Point(x, y)

\* generateRandomPosition(gameWidth, gameHeight): the positions it can set,
\* floor(random * gameWidth) and floor(random * gameHeight) being drawn from
\* RandomCells
generateRandomPosition(gameWidth, gameHeight) ==
  { setPosition(Num(c[1]), Num(c[2])) :
      c \in { r \in RandomCells : /\ r[1] \in 0..(gameWidth - 1)
                                  /\ r[2] \in 0..(gameHeight - 1) } }

\* isValidPosition(snakeBody) of a food at position
isValidPosition(position, snakeBody) ==
  ~ \E i \in 1..Len(snakeBody) : SamePoint(snakeBody[i], position)

\* generateRandomPositionAvoidingSnake(gameWidth, gameHeight, snakeBody): the
\* loop stops at the first valid sample, or after gameWidth * gameHeight
\* samples that were all invalid, keeping the last one (exhausted)
generateRandomPositionAvoidingSnake(gameWidth, gameHeight, snakeBody) ==
  LET samples == generateRandomPosition(gameWidth, gameHeight)
      maxAttempts == gameWidth * gameHeight
  IN { [position |-> c, exhausted |-> FALSE] :
         c \in { r \in samples : isValidPosition(r, snakeBody) } }
     \cup
     { [position |-> c, exhausted |-> TRUE] :
         c \in { r \in samples : /\ maxAttempts >= 1
                                 /\ ~isValidPosition(r, snakeBody) } }

\* every position generateRandomPosition(gameWidth, gameHeight) can set:
\* x = floor(random * gameWidth), y = floor(random * gameHeight)
randomPositions(gameWidth, gameHeight) ==
  { setPosition(Num(x), Num(y)) :
      x \in 0..(gameWidth - 1), y \in 0..(gameHeight - 1) }

\* mutant: the loop goes on to the last sample whatever it finds
doWhile_IgnoresValidity(draws, attempts, maxAttempts, snakeBody) ==
  [position |-> draws[Len(draws)], attempts |-> Len(draws)]

\* the do ... while of generateRandomPositionAvoidingSnake, draws[i] being
\* the position the i-th generateRandomPosition call sets
RECURSIVE doWhile(_, _, _, _)
doWhile(draws, attempts, maxAttempts, snakeBody) ==
  LET position == draws[attempts + 1]
      n == attempts + 1
  IN IF ~isValidPosition(position, snakeBody) /\ n < maxAttempts
       THEN doWhile(draws, n, maxAttempts, snakeBody)
       ELSE [position |-> position, attempts |-> n]

\* mutant: food on any segment counts as consumed
isConsumedBy_AnySegment(position, head) ==
  \E i \in 1..Len(body) : SamePoint(body[i], position)

\* isConsumedBy(snake) of a food at position, head being snake.getHead()
isConsumedBy(position, head) ==
  JSStrictEquals(head.x, position.x) /\ JSStrictEquals(head.y, position.y)

\* respawn(gameWidth, gameHeight, snakeBody)
respawn(gameWidth, gameHeight, snakeBody) ==
  generateRandomPositionAvoidingSnake(gameWidth, gameHeight, snakeBody)

(***************************************************************************)
(* Game (main.ts).                                                         *)
(***************************************************************************)
\* Game.KEY_MAPPINGS[event.key]; undefined (here null) for any other key
KEY_MAPPINGS(key) ==
  CASE key = "ArrowUp" -> "up"
    [] key = "ArrowDown" -> "down"
    [] key = "ArrowLeft" -> "left"
    [] key = "ArrowRight" -> "right"
    [] OTHER -> null

\* Game.getDirectionVector: the zero vector for an unknown string
GameGetDirectionVector(d) ==
  CASE d = "up" -> [x |-> 0, y |-> -1]
    [] d = "down" -> [x |-> 0, y |-> 1]
    [] d = "left" -> [x |-> -1, y |-> 0]
    [] d = "right" -> [x |-> 1, y |-> 0]
    [] OTHER -> [x |-> 0, y |-> 0]

\* "For now, assume no growth": the code returns false whatever growthPending is
snakeIsGrowing(g) == FALSE

\* mutant: the boundary half of the pre-check is missing
wouldCauseImmediateCollision_NoBoundary(b, g, d) ==
  LET next == Point(JSAdd(getHead(b).x, GameGetDirectionVector(d).x),
                    JSAdd(getHead(b).y, GameGetDirectionVector(d).y))
  IN \E i \in 2..Len(b) :
       /\ ~(i = Len(b) /\ ~snakeIsGrowing(g))
       /\ SamePoint(b[i], next)

wouldCauseImmediateCollision(b, g, d) ==
  LET next == Point(JSAdd(getHead(b).x, GameGetDirectionVector(d).x),
                    JSAdd(getHead(b).y, GameGetDirectionVector(d).y))
  IN \/ JSLess(next.x, 0)
     \/ JSGreaterEq(next.x, GAME_WIDTH)
     \/ JSLess(next.y, 0)
     \/ JSGreaterEq(next.y, GAME_HEIGHT)
     \/ \E i \in 2..Len(b) :
          /\ ~(i = Len(b) /\ ~snakeIsGrowing(g))
          /\ SamePoint(b[i], next)

\* mutant: the queued direction is thrown away unapplied
applyPendingDirectionChange_Discards(b, d, g, p) ==
  [direction |-> d, pendingDirection |-> null]

\* mutant: the queued direction is cleared only when the snake took it
applyPendingDirectionChange_KeepsRejected(b, d, g, p) ==
  IF p = null
    THEN [direction |-> d, pendingDirection |-> p]
    ELSE LET tried == setDirection(d, p)
             final == IF wouldCauseImmediateCollision(b, g, p)
                        THEN setDirection(tried, d)
                        ELSE tried
         IN [direction |-> final,
             pendingDirection |-> IF final = p THEN null ELSE p]

\* the snake's direction and this.pendingDirection after
\* applyPendingDirectionChange()
applyPendingDirectionChange(b, d, g, p) ==
  IF p = null
    THEN [direction |-> d, pendingDirection |-> p]
    ELSE LET tried == setDirection(d, p)
         IN [direction |-> IF wouldCauseImmediateCollision(b, g, p)
                             THEN setDirection(tried, d)
                             ELSE tried,
             pendingDirection |-> null]

\* mutant: the self-collision half of the check is missing
checkCollision_BoundaryOnly(b, d) ==
  checkBoundaryCollision(b, d, GAME_WIDTH, GAME_HEIGHT)

checkCollision(b, d) ==
  \/ checkBoundaryCollision(b, d, GAME_WIDTH, GAME_HEIGHT)
  \/ checkSelfCollision(b, d)

\* const deltaTimeMs = deltaTime * 1000, deltaTime given in thousandths of a second
deltaTimeMs(deltaTime) == (deltaTime * 1000) \div 1000

(***************************************************************************)
(* Initial states.                                                         *)
(***************************************************************************)
\* new Game(false): this.snake = new Snake(10, 5) and the field initializers
Init ==
  /\ body = createInitialBody(Num(10), Num(5))
  /\ direction = "right"
  /\ growthPending = 0
  /\ food = null
  /\ gameOver = FALSE
  /\ pendingDirection = null
  /\ lastMoveTime = 0
  /\ lastOp = Op("constructor")
  /\ ticks = 0
  /\ eats = 0
  /\ moves = 0
  /\ GameLoopConstructed

\* new Snake(startX, startY)
SnakeInit ==
  \E s \in StartPositions :
    /\ body = createInitialBody(Num(s[1]), Num(s[2]))
    /\ direction = "right"
    /\ growthPending = 0
    /\ food = null
    /\ gameOver = FALSE
    /\ pendingDirection = null
    /\ lastMoveTime = 0
    /\ lastOp = [Op("constructor") EXCEPT !.startX = Num(s[1]), !.startY = Num(s[2])]
    /\ ticks = 0
    /\ eats = 0
    /\ moves = 0
    /\ GameLoopConstructed

(***************************************************************************)
(* Actions of the Game.                                                    *)
(***************************************************************************)
\* mutant: the key steers the snake at once, game over or not (handleKeyPress
\* as it was before directions were queued)
HandleKeyPress_Immediate(key) ==
  /\ UNCHANGED food
  /\ UNCHANGED loopVars
  /\ lastOp' = [Op("handleKeyPress") EXCEPT !.key = key]
  /\ IF KEY_MAPPINGS(key) # null
       THEN direction' = setDirection(direction, KEY_MAPPINGS(key))
       ELSE UNCHANGED direction
  /\ UNCHANGED <<body, growthPending, gameOver, pendingDirection, lastMoveTime,
                 ticks, eats, moves>>

\* mutant: the key is queued and also applied to the snake
HandleKeyPress_AlsoSteers(key) ==
  /\ UNCHANGED food
  /\ UNCHANGED loopVars
  /\ lastOp' = [Op("handleKeyPress") EXCEPT !.key = key]
  /\ IF KEY_MAPPINGS(key) # null /\ ~gameOver
       THEN /\ pendingDirection' = KEY_MAPPINGS(key)
            /\ direction' = setDirection(direction, KEY_MAPPINGS(key))
       ELSE UNCHANGED <<pendingDirection, direction>>
  /\ UNCHANGED <<body, growthPending, gameOver, lastMoveTime,
                 ticks, eats, moves>>

\* mutant: keys are queued after game over too
HandleKeyPress_QueuesWhenOver(key) ==
  /\ UNCHANGED food
  /\ UNCHANGED loopVars
  /\ lastOp' = [Op("handleKeyPress") EXCEPT !.key = key]
  /\ IF KEY_MAPPINGS(key) # null
       THEN pendingDirection' = KEY_MAPPINGS(key)
       ELSE UNCHANGED pendingDirection
  /\ UNCHANGED <<body, direction, growthPending, gameOver, lastMoveTime,
                 ticks, eats, moves>>

\* mutant: a key is queued only while nothing is queued
HandleKeyPress_KeepsFirst(key) ==
  /\ UNCHANGED food
  /\ UNCHANGED loopVars
  /\ lastOp' = [Op("handleKeyPress") EXCEPT !.key = key]
  /\ IF KEY_MAPPINGS(key) # null /\ ~gameOver /\ pendingDirection = null
       THEN pendingDirection' = KEY_MAPPINGS(key)
       ELSE UNCHANGED pendingDirection
  /\ UNCHANGED <<body, direction, growthPending, gameOver, lastMoveTime,
                 ticks, eats, moves>>

\* handleKeyPress(event)
HandleKeyPress(key) ==
  /\ UNCHANGED food
  /\ UNCHANGED loopVars
  /\ lastOp' = [Op("handleKeyPress") EXCEPT
                  !.key = key,
                  !.overwrote = /\ KEY_MAPPINGS(key) # null
                                /\ ~gameOver
                                /\ pendingDirection # null
                                /\ pendingDirection # KEY_MAPPINGS(key)]
  /\ IF KEY_MAPPINGS(key) # null /\ ~gameOver
       THEN pendingDirection' = KEY_MAPPINGS(key)
       ELSE UNCHANGED pendingDirection
  /\ UNCHANGED <<body, direction, growthPending, gameOver, lastMoveTime,
                 ticks, eats, moves>>

\* mutant: the queued direction is applied in every update call, tick or not
Update_AppliesEveryCall(deltaTime) ==
  /\ UNCHANGED food
  /\ UNCHANGED loopVars
  /\ ticks < MaxTicks
  /\ lastOp' = [Op("update") EXCEPT !.deltaTime = deltaTime,
                                    !.pendingDirection = pendingDirection,
                                    !.oldDirection = direction]
  /\ UNCHANGED <<eats, moves>>
  /\ IF gameOver
       THEN UNCHANGED <<body, direction, growthPending, gameOver,
                        pendingDirection, lastMoveTime, ticks>>
       ELSE LET t == lastMoveTime + deltaTimeMs(deltaTime)
                applied == applyPendingDirectionChange(body, direction,
                               growthPending, pendingDirection)
                d == applied.direction
                moved == move(body, d, growthPending)
            IN /\ direction' = d
               /\ pendingDirection' = applied.pendingDirection
               /\ IF t >= SNAKE_MOVE_INTERVAL
                    THEN /\ ticks' = ticks + 1
                         /\ IF checkCollision(body, d)
                              THEN /\ gameOver' = TRUE
                                   /\ lastMoveTime' = t
                                   /\ UNCHANGED <<body, growthPending>>
                              ELSE /\ body' = moved.body
                                   /\ growthPending' = moved.growthPending
                                   /\ lastMoveTime' = 0
                                   /\ UNCHANGED gameOver
                    ELSE /\ lastMoveTime' = t
                         /\ UNCHANGED <<body, growthPending, gameOver, ticks>>

\* mutant: a tick that moves keeps the time beyond the interval
updateSnakeMovement_KeepsExcess(deltaTime, limit) ==
  /\ UNCHANGED food
  /\ UNCHANGED loopVars
  /\ ticks < limit
  /\ lastOp' = [Op("update") EXCEPT !.deltaTime = deltaTime,
                                    !.pendingDirection = pendingDirection,
                                    !.oldDirection = direction]
  /\ UNCHANGED <<eats, moves>>
  /\ IF gameOver
       THEN UNCHANGED <<body, direction, growthPending, gameOver,
                        pendingDirection, lastMoveTime, ticks>>
       ELSE LET t == lastMoveTime + deltaTimeMs(deltaTime)
            IN IF t >= SNAKE_MOVE_INTERVAL
                 THEN LET applied == applyPendingDirectionChange(body,
                                         direction, growthPending,
                                         pendingDirection)
                          d == applied.direction
                          moved == move(body, d, growthPending)
                      IN /\ ticks' = ticks + 1
                         /\ direction' = d
                         /\ pendingDirection' = applied.pendingDirection
                         /\ IF checkCollision(body, d)
                              THEN /\ gameOver' = TRUE
                                   /\ lastMoveTime' = t
                                   /\ UNCHANGED <<body, growthPending>>
                              ELSE /\ body' = moved.body
                                   /\ growthPending' = moved.growthPending
                                   /\ lastMoveTime' = t - SNAKE_MOVE_INTERVAL
                                   /\ UNCHANGED gameOver
                 ELSE /\ lastMoveTime' = t
                      /\ UNCHANGED <<body, direction, growthPending, gameOver,
                                     pendingDirection, ticks>>

\* updateSnakeMovement(deltaTime), as long as fewer than limit ticks have fired
updateSnakeMovement(deltaTime, limit) ==
  /\ UNCHANGED food
  /\ UNCHANGED loopVars
  /\ ticks < limit
  /\ lastOp' = [Op("update") EXCEPT !.deltaTime = deltaTime,
                                    !.pendingDirection = pendingDirection,
                                    !.oldDirection = direction]
  /\ UNCHANGED <<eats, moves>>
  /\ IF gameOver
       THEN UNCHANGED <<body, direction, growthPending, gameOver,
                        pendingDirection, lastMoveTime, ticks>>
       ELSE LET t == lastMoveTime + deltaTimeMs(deltaTime)
            IN IF t >= SNAKE_MOVE_INTERVAL
                 THEN LET applied == applyPendingDirectionChange(body,
                                         direction, growthPending,
                                         pendingDirection)
                          d == applied.direction
                          moved == move(body, d, growthPending)
                      IN /\ ticks' = ticks + 1
                         /\ direction' = d
                         /\ pendingDirection' = applied.pendingDirection
                         /\ IF checkCollision(body, d)
                              THEN /\ gameOver' = TRUE
                                   /\ lastMoveTime' = t
                                   /\ UNCHANGED <<body, growthPending>>
                              ELSE /\ body' = moved.body
                                   /\ growthPending' = moved.growthPending
                                   /\ lastMoveTime' = 0
                                   /\ UNCHANGED gameOver
                 ELSE /\ lastMoveTime' = t
                      /\ UNCHANGED <<body, direction, growthPending, gameOver,
                                     pendingDirection, ticks>>

\* update(deltaTime) -> updateSnakeMovement(deltaTime)
Update(deltaTime) == updateSnakeMovement(deltaTime, MaxTicks)

\* update(deltaTime) of a game that gets no other call
IdleUpdate(deltaTime) == updateSnakeMovement(deltaTime, MaxIdleTicks)

\* resetGame(): this.snake.reset() is called without arguments
ResetGame ==
  /\ UNCHANGED food
  /\ UNCHANGED loopVars
  /\ lastOp' = Op("resetGame")
  /\ gameOver' = FALSE
  /\ lastMoveTime' = 0
  /\ pendingDirection' = null
  /\ body' = reset(undefined, undefined).body
  /\ direction' = reset(undefined, undefined).direction
  /\ growthPending' = reset(undefined, undefined).growthPending
  /\ eats' = 0
  /\ UNCHANGED <<ticks, moves>>

(***************************************************************************)
(* Actions of the Snake.                                                   *)
(***************************************************************************)
\* snake.eat()
Eat ==
  /\ UNCHANGED food
  /\ UNCHANGED loopVars
  /\ eats < MaxEats
  /\ lastOp' = Op("eat")
  /\ growthPending' = eat(growthPending)
  /\ eats' = eats + 1
  /\ UNCHANGED <<body, direction, gameOver, pendingDirection, lastMoveTime,
                 ticks, moves>>

\* snake.setDirection(newDirection)
SetDirection(newDirection) ==
  /\ UNCHANGED food
  /\ UNCHANGED loopVars
  /\ lastOp' = [Op("setDirection") EXCEPT !.newDirection = newDirection]
  /\ direction' = setDirection(direction, newDirection)
  /\ UNCHANGED <<body, growthPending, gameOver, pendingDirection,
                 lastMoveTime, ticks, eats, moves>>

\* snake.move()
Move ==
  /\ UNCHANGED food
  /\ UNCHANGED loopVars
  /\ moves < MaxMoves
  /\ lastOp' = Op("move")
  /\ body' = move(body, direction, growthPending).body
  /\ growthPending' = move(body, direction, growthPending).growthPending
  /\ moves' = moves + 1
  /\ UNCHANGED <<direction, gameOver, pendingDirection, lastMoveTime,
                 ticks, eats>>

\* snake.reset(startX, startY)
Reset(startX, startY) ==
  /\ UNCHANGED food
  /\ UNCHANGED loopVars
  /\ lastOp' = [Op("reset") EXCEPT !.startX = startX, !.startY = startY]
  /\ body' = reset(startX, startY).body
  /\ direction' = reset(startX, startY).direction
  /\ growthPending' = reset(startX, startY).growthPending
  /\ eats' = 0
  /\ UNCHANGED <<gameOver, pendingDirection, lastMoveTime, ticks, moves>>

\* snake.checkSelfCollision()
CheckSelfCollision ==
  /\ UNCHANGED food
  /\ UNCHANGED loopVars
  /\ lastOp' = [Op("checkSelfCollision") EXCEPT
                  !.result = checkSelfCollision(body, direction)]
  /\ UNCHANGED <<body, direction, growthPending, gameOver, pendingDirection,
                 lastMoveTime, ticks, eats, moves>>

\* snake.checkBoundaryCollision(gameWidth, gameHeight)
CheckBoundaryCollision(gameWidth, gameHeight) ==
  /\ UNCHANGED food
  /\ UNCHANGED loopVars
  /\ lastOp' = [Op("checkBoundaryCollision") EXCEPT
                  !.gameWidth = gameWidth,
                  !.gameHeight = gameHeight,
                  !.result = checkBoundaryCollision(body, direction,
                                                    gameWidth, gameHeight)]
  /\ UNCHANGED <<body, direction, growthPending, gameOver, pendingDirection,
                 lastMoveTime, ticks, eats, moves>>

(***************************************************************************)
(* The Game with food. The class that owns a Food is not among the         *)
(* sources (only its tests are); its tick is the one of section 4.4 of the *)
(* specification: steps 1 to 3 as in Update, then the food check.          *)
(***************************************************************************)
\* new Game(false) of the food version: the food starts on a cell of the grid
FoodInit ==
  /\ body = createInitialBody(Num(10), Num(5))
  /\ direction = "right"
  /\ growthPending = 0
  /\ food \in generateRandomPosition(GAME_WIDTH, GAME_HEIGHT)
  /\ gameOver = FALSE
  /\ pendingDirection = null
  /\ lastMoveTime = 0
  /\ lastOp = Op("constructor")
  /\ ticks = 0
  /\ eats = 0
  /\ moves = 0
  /\ GameLoopConstructed

\* getFood().setPosition(x, y)
SetPosition(x, y) ==
  /\ UNCHANGED loopVars
  /\ lastOp' = Op("setPosition")
  /\ food' = setPosition(x, y)
  /\ UNCHANGED <<body, direction, growthPending, gameOver, pendingDirection,
                 lastMoveTime, ticks, eats, moves>>

\* mutant: the food is checked against the head before the snake moves
UpdateWithFood_ChecksBeforeMove(deltaTime) ==
  /\ UNCHANGED loopVars
  /\ ticks < MaxFoodTicks
  /\ IF gameOver
       THEN /\ lastOp' = [Op("update") EXCEPT
                            !.deltaTime = deltaTime,
                            !.pendingDirection = pendingDirection,
                            !.oldDirection = direction]
            /\ UNCHANGED <<body, direction, growthPending, food, gameOver,
                           pendingDirection, lastMoveTime, ticks, eats, moves>>
       ELSE LET t == lastMoveTime + deltaTimeMs(deltaTime)
                applied == applyPendingDirectionChange(body, direction,
                               growthPending, pendingDirection)
                d == applied.direction
                eaten == isConsumedBy(food, getHead(body))
                moved == move(body, d, IF eaten THEN eat(growthPending)
                                                ELSE growthPending)
                tick == t >= SNAKE_MOVE_INTERVAL
                       /\ ~checkCollision(body, d)
            IN /\ UNCHANGED moves
               /\ IF t >= SNAKE_MOVE_INTERVAL
                    THEN /\ ticks' = ticks + 1
                         /\ direction' = d
                         /\ pendingDirection' = applied.pendingDirection
                         /\ IF checkCollision(body, d)
                              THEN /\ gameOver' = TRUE
                                   /\ lastMoveTime' = t
                                   /\ UNCHANGED <<body, growthPending>>
                              ELSE /\ body' = moved.body
                                   /\ growthPending' = moved.growthPending
                                   /\ lastMoveTime' = 0
                                   /\ UNCHANGED gameOver
                    ELSE /\ lastMoveTime' = t
                         /\ UNCHANGED <<body, direction, growthPending,
                                        gameOver, pendingDirection, ticks>>
               /\ IF tick /\ eaten
                    THEN \E r \in respawn(GAME_WIDTH, GAME_HEIGHT, body) :
                           /\ food' = r.position
                           /\ eats' = eats + 1
                           /\ lastOp' = [Op("update") EXCEPT
                                !.deltaTime = deltaTime,
                                !.pendingDirection = pendingDirection,
                                !.oldDirection = direction,
                                !.exhausted = r.exhausted]
                    ELSE /\ UNCHANGED <<food, eats>>
                         /\ lastOp' = [Op("update") EXCEPT
                                !.deltaTime = deltaTime,
                                !.pendingDirection = pendingDirection,
                                !.oldDirection = direction]

\* update(deltaTime) of the Game with food
UpdateWithFood(deltaTime) ==
  /\ UNCHANGED loopVars
  /\ ticks < MaxFoodTicks
  /\ IF gameOver
       THEN /\ lastOp' = [Op("update") EXCEPT
                            !.deltaTime = deltaTime,
                            !.pendingDirection = pendingDirection,
                            !.oldDirection = direction]
            /\ UNCHANGED <<body, direction, growthPending, food, gameOver,
                           pendingDirection, lastMoveTime, ticks, eats, moves>>
       ELSE LET t == lastMoveTime + deltaTimeMs(deltaTime)
                applied == applyPendingDirectionChange(body, direction,
                               growthPending, pendingDirection)
                d == applied.direction
                moved == move(body, d, growthPending)
                tick == t >= SNAKE_MOVE_INTERVAL
                       /\ ~checkCollision(body, d)
                eaten == isConsumedBy(food, getHead(moved.body))
            IN /\ UNCHANGED moves
               /\ IF t >= SNAKE_MOVE_INTERVAL
                    THEN /\ ticks' = ticks + 1
                         /\ direction' = d
                         /\ pendingDirection' = applied.pendingDirection
                         /\ IF checkCollision(body, d)
                              THEN /\ gameOver' = TRUE
                                   /\ lastMoveTime' = t
                                   /\ UNCHANGED <<body, growthPending>>
                              ELSE /\ body' = moved.body
                                   /\ growthPending' =
                                        IF eaten
                                          THEN eat(moved.growthPending)
                                          ELSE moved.growthPending
                                   /\ lastMoveTime' = 0
                                   /\ UNCHANGED gameOver
                    ELSE /\ lastMoveTime' = t
                         /\ UNCHANGED <<body, direction, growthPending,
                                        gameOver, pendingDirection, ticks>>
               /\ IF tick /\ eaten
                    THEN \E r \in respawn(GAME_WIDTH, GAME_HEIGHT,
                                          moved.body) :
                           /\ food' = r.position
                           /\ eats' = eats + 1
                           /\ lastOp' = [Op("update") EXCEPT
                                !.deltaTime = deltaTime,
                                !.pendingDirection = pendingDirection,
                                !.oldDirection = direction,
                                !.exhausted = r.exhausted]
                    ELSE /\ UNCHANGED <<food, eats>>
                         /\ lastOp' = [Op("update") EXCEPT
                                !.deltaTime = deltaTime,
                                !.pendingDirection = pendingDirection,
                                !.oldDirection = direction]

(***************************************************************************)
(* Actions of the Food, next to a Snake that only moves.                   *)
(***************************************************************************)
\* new Snake(startX, startY) and new Food(x, y)
FoodClassInit ==
  \E s \in StartPositions, c \in RandomCells :
    /\ body = createInitialBody(Num(s[1]), Num(s[2]))
    /\ direction = "right"
    /\ growthPending = 0
    /\ food = setPosition(Num(c[1]), Num(c[2]))
    /\ gameOver = FALSE
    /\ pendingDirection = null
    /\ lastMoveTime = 0
    /\ lastOp = [Op("constructor") EXCEPT !.startX = Num(s[1]),
                                          !.startY = Num(s[2])]
    /\ ticks = 0
    /\ eats = 0
    /\ moves = 0
    /\ GameLoopConstructed

\* mutant: respawn is a plain generateRandomPosition, the first sample kept
Respawn_FirstSample(gameWidth, gameHeight, draws) ==
  /\ UNCHANGED loopVars
  /\ food' = draws[1]
  /\ lastOp' = [Op("respawn") EXCEPT
                  !.gameWidth = gameWidth,
                  !.gameHeight = gameHeight,
                  !.draws = draws,
                  !.attempts = 1,
                  !.exhausted = ~isValidPosition(draws[1], body)]
  /\ UNCHANGED <<body, direction, growthPending, gameOver,
                 pendingDirection, lastMoveTime, ticks, eats, moves>>

\* food.respawn(gameWidth, gameHeight, snake body), the samples being draws
Respawn(gameWidth, gameHeight, draws) ==
  LET maxAttempts == gameWidth * gameHeight
      found == doWhile(draws, 0, maxAttempts, body)
  IN /\ UNCHANGED loopVars
     /\ food' = found.position
     /\ lastOp' = [Op("respawn") EXCEPT
                     !.gameWidth = gameWidth,
                     !.gameHeight = gameHeight,
                     !.draws = draws,
                     !.attempts = found.attempts,
                     !.exhausted = ~isValidPosition(found.position, body)]
     /\ UNCHANGED <<body, direction, growthPending, gameOver,
                    pendingDirection, lastMoveTime, ticks, eats, moves>>

\* food.isConsumedBy(snake)
IsConsumedBy ==
  /\ UNCHANGED loopVars
  /\ lastOp' = [Op("isConsumedBy") EXCEPT
                  !.result = isConsumedBy(food, getHead(body))]
  /\ UNCHANGED <<body, direction, growthPending, food, gameOver,
                 pendingDirection, lastMoveTime, ticks, eats, moves>>

(***************************************************************************)
(* Actions of the GameLoop. Both callbacks are set, as Game.setupGameLoop  *)
(* sets them. A callback is code of the caller: while it runs (stack is    *)
(* not empty) it may call start, stop, pause and resume, and time passes.  *)
(***************************************************************************)
\* mutant: the delta without the cap
cappedDelta_Uncapped(currentTime, lastFrameTime) ==
  currentTime - lastFrameTime

\* Math.min((currentTime - lastFrameTime) / 1000, 0.1), in ms
cappedDelta(currentTime, lastFrameTime) ==
  IF currentTime - lastFrameTime < 100
    THEN currentTime - lastFrameTime
    ELSE 100

\* the loop as it was before it was guarded: it runs whether or not isRunning
\* (mutant)
loop_Unguarded(s, pending, op) ==
  LET deltaTime == cappedDelta(now, s.lastFrameTime)
  IN /\ state' = [s EXCEPT !.deltaTime = deltaTime, !.lastFrameTime = now]
     /\ IF ~s.isPaused
          THEN /\ stack' = <<"update">> \o stack
               /\ frames' = pending
               /\ lastOp' = [op EXCEPT !.invoked = "update",
                                       !.deltaTime = deltaTime,
                                       !.elapsed = now - s.lastFrameTime]
               /\ UNCHANGED <<animationFrameId, nextFrameId>>
          ELSE /\ animationFrameId' = nextFrameId
               /\ frames' = pending \cup {nextFrameId}
               /\ nextFrameId' = nextFrameId + 1
               /\ lastOp' = [op EXCEPT !.scheduled = TRUE]
               /\ UNCHANGED stack

\* mutant: a paused loop invokes its callbacks all the same
loop_IgnoresPause(s, pending, op) ==
  IF ~s.isRunning
    THEN /\ state' = s
         /\ frames' = pending
         /\ lastOp' = op
         /\ UNCHANGED <<animationFrameId, nextFrameId, stack>>
    ELSE LET deltaTime == cappedDelta(now, s.lastFrameTime)
         IN /\ state' = [s EXCEPT !.deltaTime = deltaTime,
                                  !.lastFrameTime = now]
            /\ stack' = <<"update">> \o stack
            /\ frames' = pending
            /\ lastOp' = [op EXCEPT !.invoked = "update",
                                    !.deltaTime = deltaTime,
                                    !.elapsed = now - s.lastFrameTime]
            /\ UNCHANGED <<animationFrameId, nextFrameId>>

\* loop(), entered with this.state = s and the frames in pending scheduled,
\* up to the call of the update callback, or to the end if there is none
loop(s, pending, op) ==
  IF ~s.isRunning
    THEN /\ state' = s
         /\ frames' = pending
         /\ lastOp' = op
         /\ UNCHANGED <<animationFrameId, nextFrameId, stack>>
    ELSE LET deltaTime == cappedDelta(now, s.lastFrameTime)
         IN /\ state' = [s EXCEPT !.deltaTime = deltaTime,
                                  !.lastFrameTime = now]
            /\ IF ~s.isPaused
                 THEN /\ stack' = <<"update">> \o stack
                      /\ frames' = pending
                      /\ lastOp' = [op EXCEPT !.invoked = "update",
                                              !.deltaTime = deltaTime,
                                              !.elapsed = now - s.lastFrameTime]
                      /\ UNCHANGED <<animationFrameId, nextFrameId>>
                 ELSE /\ animationFrameId' = nextFrameId
                      /\ frames' = pending \cup {nextFrameId}
                      /\ nextFrameId' = nextFrameId + 1
                      /\ lastOp' = [op EXCEPT !.scheduled = TRUE]
                      /\ UNCHANGED stack

\* a call of the GameLoop and what it found
LoopOp(name) ==
  [Op(name) EXCEPT !.wasRunning = state.isRunning,
                   !.wasPaused = state.isPaused,
                   !.inCallback = IF stack = <<>> THEN "" ELSE stack[1]]

\* mutant: start() starts over when the loop is running already
Start_Restarts ==
  /\ Len(stack) < MaxDepth
  /\ nextFrameId <= MaxFrames
  /\ loop([state EXCEPT !.isRunning = TRUE,
                        !.isPaused = FALSE,
                        !.lastFrameTime = now],
          frames, LoopOp("start"))
  /\ UNCHANGED <<now, resumedAt>>
  /\ UNCHANGED gameVars

\* start()
Start ==
  /\ Len(stack) < MaxDepth
  /\ nextFrameId <= MaxFrames
  /\ IF state.isRunning
       THEN /\ lastOp' = LoopOp("start")
            /\ UNCHANGED <<state, animationFrameId, frames, nextFrameId,
                           stack>>
       ELSE loop([state EXCEPT !.isRunning = TRUE,
                               !.isPaused = FALSE,
                               !.lastFrameTime = now],
                 frames, LoopOp("start"))
  /\ UNCHANGED <<now, resumedAt>>
  /\ UNCHANGED gameVars

\* pause()
Pause ==
  /\ lastOp' = LoopOp("pause")
  /\ state' = [state EXCEPT !.isPaused = TRUE]
  /\ UNCHANGED <<animationFrameId, frames, nextFrameId, now, stack,
                 resumedAt>>
  /\ UNCHANGED gameVars

\* mutant: resume() clears the pause and keeps the old time origin
Resume_KeepsOrigin ==
  /\ lastOp' = LoopOp("resume")
  /\ IF ~state.isRunning
       THEN UNCHANGED <<state, resumedAt>>
       ELSE /\ state' = [state EXCEPT !.isPaused = FALSE]
            /\ resumedAt' = now
  /\ UNCHANGED <<animationFrameId, frames, nextFrameId, now, stack>>
  /\ UNCHANGED gameVars

\* resume()
Resume ==
  /\ lastOp' = LoopOp("resume")
  /\ IF ~state.isRunning
       THEN UNCHANGED <<state, resumedAt>>
       ELSE /\ state' = [state EXCEPT !.isPaused = FALSE,
                                      !.lastFrameTime = now]
            /\ resumedAt' = now
  /\ UNCHANGED <<animationFrameId, frames, nextFrameId, now, stack>>
  /\ UNCHANGED gameVars

\* mutant: stop() leaves the pause flag alone
Stop_KeepsPause ==
  /\ lastOp' = LoopOp("stop")
  /\ state' = [state EXCEPT !.isRunning = FALSE]
  /\ IF animationFrameId # 0
       THEN /\ frames' = frames \ {animationFrameId}
            /\ animationFrameId' = 0
       ELSE UNCHANGED <<frames, animationFrameId>>
  /\ UNCHANGED <<nextFrameId, now, stack, resumedAt>>
  /\ UNCHANGED gameVars

\* stop(); cancelAnimationFrame of a handle that has fired does nothing
Stop ==
  /\ lastOp' = LoopOp("stop")
  /\ state' = [state EXCEPT !.isRunning = FALSE, !.isPaused = FALSE]
  /\ IF animationFrameId # 0
       THEN /\ frames' = frames \ {animationFrameId}
            /\ animationFrameId' = 0
       ELSE UNCHANGED <<frames, animationFrameId>>
  /\ UNCHANGED <<nextFrameId, now, stack, resumedAt>>
  /\ UNCHANGED gameVars

\* the browser runs the oldest scheduled frame callback: loop()
Frame ==
  /\ stack = <<>>
  /\ frames # {}
  /\ nextFrameId <= MaxFrames
  /\ LET id == CHOOSE i \in frames : \A j \in frames : i <= j
     IN loop(state, frames \ {id}, LoopOp("frame"))
  /\ UNCHANGED <<now, resumedAt>>
  /\ UNCHANGED gameVars

\* mutant: after the update callback the next frame is requested at once and
\* the render callback is left out
Return_SkipsRender ==
  /\ stack # <<>>
  /\ nextFrameId <= MaxFrames
  /\ stack' = Tail(stack)
  /\ animationFrameId' = nextFrameId
  /\ frames' = frames \cup {nextFrameId}
  /\ nextFrameId' = nextFrameId + 1
  /\ lastOp' = [LoopOp("return") EXCEPT !.scheduled = TRUE]
  /\ UNCHANGED <<state, now, resumedAt>>
  /\ UNCHANGED gameVars

\* the callback in progress returns into loop(): after the update callback
\* the render callback is invoked, after the render callback the next frame
\* is requested
Return ==
  /\ stack # <<>>
  /\ nextFrameId <= MaxFrames
  /\ IF stack[1] = "update"
       THEN /\ stack' = <<"render">> \o Tail(stack)
            /\ lastOp' = [LoopOp("return") EXCEPT !.invoked = "render"]
            /\ UNCHANGED <<animationFrameId, frames, nextFrameId>>
       ELSE /\ stack' = Tail(stack)
            /\ animationFrameId' = nextFrameId
            /\ frames' = frames \cup {nextFrameId}
            /\ nextFrameId' = nextFrameId + 1
            /\ lastOp' = [LoopOp("return") EXCEPT !.scheduled = TRUE]
  /\ UNCHANGED <<state, now, resumedAt>>
  /\ UNCHANGED gameVars

\* time passes
Advance(step) ==
  /\ now < MaxNow
  /\ now' = now + step
  /\ lastOp' = LoopOp("advance")
  /\ UNCHANGED <<state, animationFrameId, frames, nextFrameId, stack,
                 resumedAt>>
  /\ UNCHANGED gameVars

(***************************************************************************)
(* The Game as the page makes it: new Game() (main.ts:53-79, 388) looks up *)
(* the canvas, builds the renderer and the GameLoop, sets the callbacks    *)
(* and starts the loop; an error thrown on the way is caught and logged    *)
(* and leaves the Game without canvasManager, renderer and gameLoop.  The  *)
(* callbacks of the Game call nothing of the GameLoop, and key events and  *)
(* calls from the page come between the frames.                            *)
(***************************************************************************)
\* mutant: a canvas that gives no 2D context is taken all the same
CanvasManager_IgnoresContext(doc) ==
  IF ~doc.canvasElement THEN "Error" ELSE "CanvasManager"

\* new CanvasManager('gameCanvas', 400, 300): the object made or the Error
\* thrown
CanvasManager(doc) ==
  IF ~doc.canvasElement
    THEN "Error"
    ELSE IF ~doc.context
           THEN "Error"
           ELSE "CanvasManager"

\* new Game() on a page with or without the canvas: the state when the
\* constructor has caught the error, or else when the loop() of its
\* this.start() has called the update callback
GameInit ==
  /\ body = createInitialBody(Num(10), Num(5))
  /\ direction = "right"
  /\ growthPending = 0
  /\ food = null
  /\ gameOver = FALSE
  /\ pendingDirection = null
  /\ lastMoveTime = 0
  /\ ticks = 0
  /\ eats = 0
  /\ moves = 0
  /\ animationFrameId = 0
  /\ frames = {}
  /\ nextFrameId = 1
  /\ now = 0
  /\ resumedAt = -1
  /\ \E canvasElement, context \in BOOLEAN :
       document = [canvasElement |-> canvasElement, context |-> context]
  /\ IF CanvasManager(document) = "Error"
       THEN /\ gameLoop = "undefined"
            /\ state = [isRunning |-> FALSE, isPaused |-> FALSE,
                        lastFrameTime |-> 0, deltaTime |-> 0]
            /\ stack = <<>>
            /\ lastOp = [Op("constructor") EXCEPT !.threw = TRUE]
       ELSE /\ gameLoop = "GameLoop"
            /\ state = [isRunning |-> TRUE, isPaused |-> FALSE,
                        lastFrameTime |-> 0, deltaTime |-> 0]
            /\ stack = <<"update">>
            /\ lastOp = [Op("constructor") EXCEPT !.invoked = "update"]

\* a keydown event
KeyDown(key) ==
  /\ stack = <<>>
  /\ HandleKeyPress(key)

\* Game.start(): this.gameLoop.start(), a TypeError without a gameLoop
GameStart ==
  /\ stack = <<>>
  /\ IF gameLoop = "undefined"
       THEN /\ lastOp' = [LoopOp("start") EXCEPT !.threw = TRUE]
            /\ UNCHANGED loopVars
       ELSE Start
  /\ UNCHANGED gameVars

\* Game.stop(): this.gameLoop.stop(), a TypeError without a gameLoop
GameStop ==
  /\ stack = <<>>
  /\ IF gameLoop = "undefined"
       THEN /\ lastOp' = [LoopOp("stop") EXCEPT !.threw = TRUE]
            /\ UNCHANGED loopVars
       ELSE Stop
  /\ UNCHANGED gameVars

\* the update callback set by setupGameLoop, called by loop() with
\* state.deltaTime
UpdateCallback ==
  /\ stack # <<>>
  /\ stack[1] = "update"
  /\ lastOp.invoked = "update"
  /\ Update(state.deltaTime)

\* the update callback or the render callback of the Game returns into loop()
CallbackReturns ==
  /\ lastOp.invoked # "update"
  /\ Return

\* time passes between the frames
TimePasses(step) ==
  /\ stack = <<>>
  /\ Advance(step)

(***************************************************************************)
(* Specifications.                                                         *)
(***************************************************************************)
Next ==
  \/ \E key \in Keys : HandleKeyPress(key)
  \/ \E deltaTime \in DeltaTimes : Update(deltaTime)
  \/ ResetGame
  \/ Eat

Spec == Init /\ [][Next]_vars

\* the game driven by key events and update calls alone, the snake fed
\* through getSnake().eat()
PlayNext ==
  \/ \E key \in Keys : HandleKeyPress(key)
  \/ \E deltaTime \in DeltaTimes : Update(deltaTime)
  \/ Eat

PlaySpec == Init /\ [][PlayNext]_vars

\* the game left without input: update calls and nothing else
IdleNext == \E deltaTime \in IdleDeltaTimes : IdleUpdate(deltaTime)

IdleSpec == Init /\ [][IdleNext]_vars

\* the update calls keep coming
IdleLiveSpec == IdleSpec /\ WF_vars(IdleNext)

\* the Game of the page: key events, frames with the callbacks of the Game,
\* and start() and stop() called from the page
GameNext ==
  \/ \E key \in Keys : KeyDown(key)
  \/ GameStart
  \/ GameStop
  \/ Frame
  \/ UpdateCallback
  \/ CallbackReturns
  \/ \E step \in ClockSteps : TimePasses(step)

GameSpec == GameInit /\ [][GameNext]_vars

SnakeNext ==
  \/ \E newDirection \in Directions : SetDirection(newDirection)
  \/ Eat
  \/ Move
  \/ \E s \in StartPositions : Reset(Num(s[1]), Num(s[2]))
  \/ CheckSelfCollision
  \/ \E g \in GridSizes : CheckBoundaryCollision(g[1], g[2])

SnakeSpec == SnakeInit /\ [][SnakeNext]_vars

FoodNext ==
  \/ \E key \in Keys : HandleKeyPress(key)
  \/ \E deltaTime \in DeltaTimes : UpdateWithFood(deltaTime)
  \/ \E c \in RandomCells : SetPosition(Num(c[1]), Num(c[2]))

FoodSpec == FoodInit /\ [][FoodNext]_vars

FoodClassNext ==
  \/ \E c \in RandomCells : SetPosition(Num(c[1]), Num(c[2]))
  \/ \E g \in SmallGrids :
       \E draws \in [1..(g[1] * g[2]) -> randomPositions(g[1], g[2])] :
         Respawn(g[1], g[2], draws)
  \/ IsConsumedBy
  \/ Move

FoodClassSpec == FoodClassInit /\ [][FoodClassNext]_vars

LoopNext ==
  \/ Start
  \/ Pause
  \/ Resume
  \/ Stop
  \/ Frame
  \/ Return
  \/ \E step \in ClockSteps : Advance(step)

LoopSpec == Init /\ [][LoopNext]_vars

(***************************************************************************)
(* Vocabulary of the properties.                                           *)
(***************************************************************************)
Opposite(d) ==
  CASE d = "up" -> "down"
    [] d = "down" -> "up"
    [] d = "left" -> "right"
    [] d = "right" -> "left"

\* the cell one grid unit from p in direction d
Ahead(p, d) ==
  CASE d = "up" -> Point(p.x, JSAdd(p.y, -1))
    [] d = "down" -> Point(p.x, JSAdd(p.y, 1))
    [] d = "left" -> Point(JSAdd(p.x, -1), p.y)
    [] d = "right" -> Point(JSAdd(p.x, 1), p.y)

\* p has x < 0, x >= 20, y < 0 or y >= 15
OutsideGrid(p) ==
  \/ JSLess(p.x, 0)
  \/ JSGreaterEq(p.x, GAME_WIDTH)
  \/ JSLess(p.y, 0)
  \/ JSGreaterEq(p.y, GAME_HEIGHT)

\* p is a cell of the grid: 0 <= x < 20 and 0 <= y < 15
InsideGrid(p) ==
  /\ p.x.t = "number" /\ p.x.v >= 0 /\ p.x.v < GAME_WIDTH
  /\ p.y.t = "number" /\ p.y.v >= 0 /\ p.y.v < GAME_HEIGHT

\* p is the cell of one of the segments b[from], ..., b[to]
OnSegment(p, b, from, to) == \E i \in from..to : SamePoint(b[i], p)

SnakeHead == body[1]
SnakeTail == body[Len(body)]

\* this step is an update(deltaTime) call that finds the game not over and
\* brings the accumulated time to the move interval: a tick
TickStep ==
  /\ lastOp'.name = "update"
  /\ ~gameOver
  /\ lastMoveTime + lastOp'.deltaTime >= SNAKE_MOVE_INTERVAL

(***************************************************************************)
(* C1: at a tick, if the cell ahead of the head in the finalized direction *)
(* is outside the grid or on a body segment, gameOver becomes true and the *)
(* body (the head in particular) is what it was before the tick.           *)
(***************************************************************************)
C1_CollisionEndsGameWithoutMove ==
  [][ LET ahead == Ahead(SnakeHead, direction')
      IN (TickStep /\ (\/ OutsideGrid(ahead)
                       \/ OnSegment(ahead, body, 2, Len(body))))
           => (gameOver' /\ body' = body) ]_vars

\* a tick has ended the game at the top wall: the head is still in row 0,
\* heading up
C1_Witness ==
  /\ lastOp.name = "update"
  /\ gameOver
  /\ lastMoveTime >= SNAKE_MOVE_INTERVAL
  /\ direction = "up"
  /\ SnakeHead.y = Num(0)

(***************************************************************************)
(* C2: at a tick with a pending direction p whose cell ahead of the head   *)
(* is outside the grid or on a body segment other than the tail, the       *)
(* direction after the tick is the direction before it; and if the cell    *)
(* ahead in that old direction is free, gameOver stays false and the head  *)
(* advances one cell in the old direction.                                 *)
(***************************************************************************)
C2_UnsafePendingDirectionRolledBack ==
  [][ LET turned == Ahead(SnakeHead, pendingDirection)
          straight == Ahead(SnakeHead, direction)
      IN (/\ TickStep
          /\ pendingDirection # null
          /\ \/ OutsideGrid(turned)
             \/ OnSegment(turned, body, 2, Len(body) - 1))
           => /\ direction' = direction
              /\ (~ (\/ OutsideGrid(straight)
                     \/ OnSegment(straight, body, 2, Len(body))))
                   => (/\ ~gameOver'
                       /\ body'[1] = straight
                       /\ body'[2] = SnakeHead) ]_vars

\* the hook of the test suite after its tick: ArrowUp was queued with the head
\* at (11,6) heading left and a segment at (11,5); the snake went on to (10,6)
C2_Witness ==
  /\ lastOp.name = "update"
  /\ lastOp.pendingDirection = "up"
  /\ lastOp.oldDirection = "left"
  /\ ~gameOver
  /\ direction = "left"
  /\ Len(body) = 5
  /\ SnakeHead = Point(Num(10), Num(6))
  /\ body[2] = Point(Num(11), Num(6))
  /\ body[5] = Point(Num(11), Num(5))

(***************************************************************************)
(* C3: at a tick where the snake is growing (growthPending > 0), a pending *)
(* direction whose cell ahead of the head is the tail cell is reverted:    *)
(* the direction after the tick is the direction before it.                *)
(***************************************************************************)
C3_GrowingSnakeKeepsDirectionOffTail ==
  [][ (/\ TickStep
       /\ growthPending > 0
       /\ pendingDirection # null
       /\ SamePoint(SnakeTail, Ahead(SnakeHead, pendingDirection)))
        => direction' = direction ]_vars

\* the game over the C3 tick ends in: ArrowDown was queued with the head at
\* (9,4) heading left, the tail at (9,5) and a growth pending
C3_Reached ==
  /\ lastOp.name = "update"
  /\ lastOp.pendingDirection = "down"
  /\ lastOp.oldDirection = "left"
  /\ direction = "down"
  /\ gameOver
  /\ growthPending > 0
  /\ SamePoint(SnakeTail, Ahead(SnakeHead, "down"))

(***************************************************************************)
(* C4: once gameOver is true, an update call or a key event leaves         *)
(* gameOver true and the snake's body, direction and growthPending         *)
(* unchanged; gameOver goes back to false only in resetGame.               *)
(***************************************************************************)
C4_GameOverIsTerminal ==
  [][ /\ (gameOver /\ lastOp'.name \in {"update", "handleKeyPress"})
           => (/\ gameOver'
               /\ body' = body
               /\ direction' = direction
               /\ growthPending' = growthPending)
      /\ (gameOver /\ ~gameOver') => lastOp'.name = "resetGame" ]_vars

\* an arrow key pressed after the game ended towards a direction the snake
\* could otherwise have taken
C4_Witness ==
  /\ gameOver
  /\ lastOp.name = "handleKeyPress"
  /\ KEY_MAPPINGS(lastOp.key) # null
  /\ KEY_MAPPINGS(lastOp.key) # direction
  /\ KEY_MAPPINGS(lastOp.key) # Opposite(direction)
  /\ pendingDirection = null

(***************************************************************************)
(* C5: setDirection(n) on a snake heading d leaves the direction at d when *)
(* n is the opposite of d and sets it to n otherwise (n = d included);     *)
(* body and growthPending are not changed.                                 *)
(***************************************************************************)
C5_SetDirectionRejectsOnlyReversal ==
  [][ lastOp'.name = "setDirection"
        => /\ direction' = IF lastOp'.newDirection = Opposite(direction)
                             THEN direction
                             ELSE lastOp'.newDirection
           /\ body' = body
           /\ growthPending' = growthPending ]_vars

\* setDirection('down') was just ignored by a snake heading up
C5_Witness ==
  /\ lastOp.name = "setDirection"
  /\ lastOp.newDirection = "down"
  /\ direction = "up"

(***************************************************************************)
(* C6: move() prepends the cell ahead of the old head, so the new second   *)
(* segment is the old head; with growthPending > 0 it counts growthPending *)
(* down by 1 and keeps every old segment, otherwise it drops exactly the   *)
(* old tail and growthPending stays 0. It validates nothing.               *)
(***************************************************************************)
C6_MovePrependsAndGrowsOrDropsTail ==
  [][ lastOp'.name = "move"
        => /\ body'[1] = Ahead(SnakeHead, direction)
           /\ body'[2] = SnakeHead
           /\ IF growthPending > 0
                THEN /\ growthPending' = growthPending - 1
                     /\ body' = <<Ahead(SnakeHead, direction)>> \o body
                     /\ body'[Len(body')] = SnakeTail
                ELSE /\ growthPending' = 0
                     /\ body' = <<Ahead(SnakeHead, direction)>>
                                  \o SubSeq(body, 1, Len(body) - 1) ]_vars

\* a growing move that took the head out of the grid: from (2,0) up to (2,-1),
\* one of two pending growths used
C6_Witness ==
  /\ lastOp.name = "move"
  /\ Len(body) = 4
  /\ growthPending = 1
  /\ SnakeHead = Point(Num(2), Num(-1))
  /\ SnakeTail = Point(Num(0), Num(0))

(***************************************************************************)
(* C7: body length + growthPending = 3 + the number of eat() calls made on *)
(* the snake since it was constructed (or reset), with growthPending >= 0  *)
(* and body length >= 3.                                                   *)
(***************************************************************************)
C7_GrowthIsConserved ==
  /\ Len(body) + growthPending = 3 + eats
  /\ growthPending >= 0
  /\ Len(body) >= 3

\* two eat() calls, both consumed by later moves
C7_Witness ==
  /\ lastOp.name = "move"
  /\ eats = 2
  /\ growthPending = 0
  /\ Len(body) = 5

(***************************************************************************)
(* C8: eat() adds exactly 1 to growthPending and changes neither the body  *)
(* nor the direction; the body only gets longer in a move().               *)
(***************************************************************************)
C8_EatOnlyCountsGrowth ==
  [][ /\ lastOp'.name = "eat"
           => /\ growthPending' = growthPending + 1
              /\ body' = body
              /\ direction' = direction
      /\ Len(body') > Len(body) => lastOp'.name = "move" ]_vars

\* a second eat() stacked on the first, the body still at its initial length
C8_Witness ==
  /\ lastOp.name = "eat"
  /\ growthPending = 2
  /\ Len(body) = 3

(***************************************************************************)
(* C9: after every tick that fires while the game is not over,             *)
(* pendingDirection is empty, whatever became of the queued direction.     *)
(***************************************************************************)
C9_TickClearsPendingDirection ==
  [][ TickStep => pendingDirection' = null ]_vars

\* a tick that found a direction queued, took it and ended the game
C9_Witness ==
  /\ lastOp.name = "update"
  /\ lastOp.pendingDirection # null
  /\ lastOp.pendingDirection = direction
  /\ lastOp.oldDirection # direction
  /\ gameOver
  /\ pendingDirection = null

(***************************************************************************)
(* C10: an arrow-key event while the game is not over leaves the snake's   *)
(* body, direction and growthPending, gameOver and lastMoveTime unchanged; *)
(* outside resetGame the direction changes only in a tick.                 *)
(***************************************************************************)
C10_KeyEventOnlyQueues ==
  [][ /\ (/\ lastOp'.name = "handleKeyPress"
          /\ KEY_MAPPINGS(lastOp'.key) # null
          /\ ~gameOver)
           => UNCHANGED <<body, direction, growthPending, gameOver,
                          lastMoveTime>>
      /\ (direction' # direction /\ lastOp'.name # "resetGame")
           => TickStep ]_vars

\* ArrowUp queued half way through a move interval, the snake still heading
\* right
C10_Witness ==
  /\ lastOp.name = "handleKeyPress"
  /\ lastOp.key = "ArrowUp"
  /\ pendingDirection = "up"
  /\ direction = "right"
  /\ ~gameOver
  /\ lastMoveTime = 100

(***************************************************************************)
(* C11: pendingDirection holds at most one direction. An arrow key pressed *)
(* while the game runs replaces whatever was queued, so of several keys    *)
(* pressed between two ticks only the last is looked at by the next tick:  *)
(* the direction after a tick is the direction before it or the last       *)
(* queued one. The key events themselves do not touch the snake.           *)
(***************************************************************************)
C11_LastKeyWins ==
  [][ /\ pendingDirection' \in Directions \cup {null}
      /\ (/\ lastOp'.name = "handleKeyPress"
          /\ KEY_MAPPINGS(lastOp'.key) # null
          /\ ~gameOver)
           => pendingDirection' = KEY_MAPPINGS(lastOp'.key)
      /\ lastOp'.name = "handleKeyPress"
           => (body' = body /\ direction' = direction)
      /\ TickStep
           => direction' \in {direction} \cup ({pendingDirection} \ {null}) ]_vars

\* ArrowUp has just replaced another queued direction, the snake heading
\* right all the while
C11_Witness ==
  /\ lastOp.name = "handleKeyPress"
  /\ lastOp.key = "ArrowUp"
  /\ lastOp.overwrote
  /\ pendingDirection = "up"
  /\ direction = "right"
  /\ ~gameOver

(***************************************************************************)
(* C12: a queued direction is applied only at a tick. An update call that  *)
(* leaves the accumulated time below the move interval adds its time and   *)
(* changes neither body, direction nor pendingDirection. The direction     *)
(* changes only in a tick (or in resetGame), and it changes before the     *)
(* tick's collision check and move: both are made in the new direction.    *)
(***************************************************************************)
C12_QueuedDirectionWaitsForTick ==
  [][ LET ahead == Ahead(SnakeHead, direction')
      IN /\ (/\ lastOp'.name = "update"
             /\ ~gameOver
             /\ lastMoveTime + lastOp'.deltaTime < SNAKE_MOVE_INTERVAL)
              => /\ body' = body
                 /\ direction' = direction
                 /\ pendingDirection' = pendingDirection
                 /\ lastMoveTime' = lastMoveTime + lastOp'.deltaTime
         /\ (direction' # direction /\ lastOp'.name # "resetGame")
              => TickStep
         /\ (TickStep /\ direction' # direction)
              => /\ direction' = pendingDirection
                 /\ IF \/ OutsideGrid(ahead)
                       \/ OnSegment(ahead, body, 2, Len(body))
                      THEN gameOver' /\ body' = body
                      ELSE ~gameOver' /\ body'[1] = ahead ]_vars

\* an update of 0.1 s has just passed with ArrowUp queued: the time is at
\* 100 ms, the snake still heads right from (10,5) and ArrowUp is still queued
C12_Witness ==
  /\ lastOp.name = "update"
  /\ lastOp.pendingDirection = "up"
  /\ pendingDirection = "up"
  /\ lastMoveTime = 100
  /\ direction = "right"
  /\ SnakeHead = Point(Num(10), Num(5))
  /\ ~gameOver

(***************************************************************************)
(* C13: at a tick with a pending direction p that is not the opposite of   *)
(* the current direction and whose cell ahead of the head is inside the    *)
(* grid and on no body segment, the direction after the tick is p, the     *)
(* head has advanced exactly one cell in direction p and gameOver is still *)
(* false.                                                                  *)
(***************************************************************************)
C13_SafePendingDirectionIsTaken ==
  [][ LET turned == Ahead(SnakeHead, pendingDirection)
      IN (/\ TickStep
          /\ pendingDirection # null
          /\ pendingDirection # Opposite(direction)
          /\ InsideGrid(turned)
          /\ ~OnSegment(turned, body, 1, Len(body)))
           => /\ direction' = pendingDirection
              /\ body'[1] = turned
              /\ body'[2] = SnakeHead
              /\ ~gameOver' ]_vars

\* ArrowUp queued while heading right at (10,5): the tick turned the snake up
\* to (10,4)
C13_Witness ==
  /\ lastOp.name = "update"
  /\ lastOp.pendingDirection = "up"
  /\ lastOp.oldDirection = "right"
  /\ direction = "up"
  /\ SnakeHead = Point(Num(10), Num(4))
  /\ body[2] = Point(Num(10), Num(5))
  /\ ~gameOver

(***************************************************************************)
(* C14: a key event sets pendingDirection exactly when the key is ArrowUp, *)
(* ArrowDown, ArrowLeft or ArrowRight and the game is not over, to up,     *)
(* down, left, right respectively. Any other key, and any key after game   *)
(* over, changes nothing of the game: a direction queued earlier stays.    *)
(***************************************************************************)
C14_OnlyArrowKeysOfARunningGameQueue ==
  [][ lastOp'.name = "handleKeyPress"
        => LET key == lastOp'.key
               arrow == key \in {"ArrowUp", "ArrowDown", "ArrowLeft",
                                 "ArrowRight"}
           IN IF arrow /\ ~gameOver
                THEN pendingDirection' =
                       CASE key = "ArrowUp" -> "up"
                         [] key = "ArrowDown" -> "down"
                         [] key = "ArrowLeft" -> "left"
                         [] key = "ArrowRight" -> "right"
                ELSE /\ pendingDirection' = pendingDirection
                     /\ body' = body
                     /\ direction' = direction
                     /\ growthPending' = growthPending
                     /\ gameOver' = gameOver
                     /\ lastMoveTime' = lastMoveTime ]_vars

\* Enter pressed in a running game with ArrowUp queued: the queue still holds
\* up
C14_Witness ==
  /\ lastOp.name = "handleKeyPress"
  /\ lastOp.key = "Enter"
  /\ pendingDirection = "up"
  /\ ~gameOver

(***************************************************************************)
(* C15: checkSelfCollision() returns true exactly when the cell ahead of   *)
(* the head in the current direction is the cell of a body segment other   *)
(* than the head, the tail included whether or not a growth is pending.    *)
(* It changes neither body, direction nor growthPending.                   *)
(***************************************************************************)
C15_SelfCollisionLooksAheadAtWholeBody ==
  [][ lastOp'.name = "checkSelfCollision"
        => LET ahead == Ahead(SnakeHead, direction)
           IN /\ lastOp'.result
                   <=> (\E i \in 2..Len(body) : body[i] = ahead)
              /\ (growthPending = 0 /\ SnakeTail = ahead) => lastOp'.result
              /\ body' = body
              /\ direction' = direction
              /\ growthPending' = growthPending ]_vars

\* checkSelfCollision() has returned true for a four-segment snake with no
\* growth pending whose head faces its own tail
C15_Witness ==
  /\ lastOp.name = "checkSelfCollision"
  /\ lastOp.result
  /\ growthPending = 0
  /\ Len(body) = 4
  /\ SnakeTail = Ahead(SnakeHead, direction)
  /\ \A i \in 2..3 : body[i] # SnakeTail

(***************************************************************************)
(* C16: for every head position, direction and grid size (w, h),           *)
(* checkBoundaryCollision(w, h) returns true exactly when the cell ahead   *)
(* of the head has x < 0, x >= w, y < 0 or y >= h. For a head on an edge   *)
(* of the grid that moves along the edge or away from it the result is     *)
(* false. It changes neither body, direction nor growthPending.            *)
(***************************************************************************)
C16_BoundaryCollisionLooksAhead ==
  [][ lastOp'.name = "checkBoundaryCollision"
        => LET w == lastOp'.gameWidth
               h == lastOp'.gameHeight
               x == SnakeHead.x.v
               y == SnakeHead.y.v
               ax == Ahead(SnakeHead, direction).x.v
               ay == Ahead(SnakeHead, direction).y.v
               onEdge == /\ x \in 0..(w - 1) /\ y \in 0..(h - 1)
                         /\ (x = 0 \/ x = w - 1 \/ y = 0 \/ y = h - 1)
           IN /\ lastOp'.result <=> (ax < 0 \/ ax >= w \/ ay < 0 \/ ay >= h)
              /\ (onEdge /\ ax \in 0..(w - 1) /\ ay \in 0..(h - 1))
                   => ~lastOp'.result
              /\ body' = body
              /\ direction' = direction
              /\ growthPending' = growthPending ]_vars

\* checkBoundaryCollision(20, 15) has returned false for a head on the top
\* edge at (3,0) that moves right, along the edge
C16_Witness ==
  /\ lastOp.name = "checkBoundaryCollision"
  /\ lastOp.gameWidth = 20
  /\ lastOp.gameHeight = 15
  /\ ~lastOp.result
  /\ SnakeHead = Point(Num(3), Num(0))
  /\ direction = "right"

(***************************************************************************)
(* C17: reset(x, y), after any sequence of setDirection, eat and move,     *)
(* leaves the snake exactly as new Snake(x, y) makes it: body              *)
(* [(x,y), (x-1,y), (x-2,y)], direction right, growthPending 0.            *)
(***************************************************************************)
C17_ResetRestoresFreshSnake ==
  [][ lastOp'.name = "reset"
        => LET x == lastOp'.startX
               y == lastOp'.startY
           IN /\ body' = << Point(x, y),
                            Point(Num(x.v - 1), y),
                            Point(Num(x.v - 2), y) >>
              /\ direction' = "right"
              /\ growthPending' = 0 ]_vars

\* reset(2, 0) on a snake that had made three moves or more
C17_Witness ==
  /\ lastOp.name = "reset"
  /\ lastOp.startX = Num(2)
  /\ lastOp.startY = Num(0)
  /\ moves >= 3
  /\ body = << Point(Num(2), Num(0)), Point(Num(1), Num(0)),
               Point(Num(0), Num(0)) >>
  /\ direction = "right"
  /\ growthPending = 0

(***************************************************************************)
(* C18: resetGame(), from any state, game over included, puts the game     *)
(* back into its initial state: gameOver false, nothing queued, the        *)
(* accumulated time 0, and the snake at [(10,5), (9,5), (8,5)] heading     *)
(* right with no growth pending.                                           *)
(***************************************************************************)
C18_ResetGameRestoresInitialState ==
  [][ lastOp'.name = "resetGame"
        => /\ gameOver' = FALSE
           /\ pendingDirection' = null
           /\ lastMoveTime' = 0
           /\ body' = << Point(Num(10), Num(5)), Point(Num(9), Num(5)),
                         Point(Num(8), Num(5)) >>
           /\ direction' = "right"
           /\ growthPending' = 0 ]_vars

\* what resetGame() leaves instead: a head without coordinates, followed by
\* two segments whose x is NaN
C18_Reached ==
  /\ lastOp.name = "resetGame"
  /\ ~gameOver
  /\ body = << Point(undefined, undefined), Point(NaN, undefined),
               Point(NaN, undefined) >>

(***************************************************************************)
(* C19: in every state the Snake reaches by setDirection, eat, move and    *)
(* reset, any two consecutive body segments are neighbouring cells: they   *)
(* differ by exactly 1 in exactly one coordinate and agree in the other.   *)
(***************************************************************************)
C19_ConsecutiveSegmentsAreNeighbours ==
  \A i \in 1..(Len(body) - 1) :
    LET p == body[i]
        q == body[i + 1]
    IN /\ p.x.t = "number" /\ p.y.t = "number"
       /\ q.x.t = "number" /\ q.y.t = "number"
       /\ \/ (p.y.v = q.y.v /\ p.x.v - q.x.v \in {-1, 1})
          \/ (p.x.v = q.x.v /\ p.y.v - q.y.v \in {-1, 1})

\* a five-segment snake bent twice: the head went up, then left, while two
\* growths were used
C19_Witness ==
  /\ lastOp.name = "move"
  /\ Len(body) = 5
  /\ body[1].x.v = body[2].x.v - 1
  /\ body[2].y.v = body[3].y.v - 1
  /\ body[4].x.v = body[5].x.v + 1

C21_FoodOnHeadGrowsInTheSameUpdate ==
  [][ (/\ lastOp'.name = "update"
       /\ lastOp'.deltaTime >= SNAKE_MOVE_INTERVAL
       /\ ~gameOver
       /\ food = SnakeHead
       /\ ~gameOver')
        => /\ Len(body') = Len(body) + 1
           /\ InsideGrid(food')
           /\ food' # food ]_vars

\* what such an update leaves instead: the snake has moved on from (10,5),
\* three segments long, nothing eaten, the food still at (10,5), now under
\* the second segment
C21_Reached ==
  /\ lastOp.name = "update"
  /\ lastOp.deltaTime >= SNAKE_MOVE_INTERVAL
  /\ ticks = 1
  /\ eats = 0
  /\ Len(body) = 3
  /\ growthPending = 0
  /\ food = Point(Num(10), Num(5))
  /\ body[2] = food
  /\ ~gameOver

\* p is a cell of a grid of w by h cells
InsideGridOf(p, w, h) ==
  /\ p.x.t = "number" /\ p.x.v \in 0..(w - 1)
  /\ p.y.t = "number" /\ p.y.v \in 0..(h - 1)

\* some cell of the w by h grid is off the body b
LeavesACellFree(b, w, h) ==
  \E x \in 0..(w - 1), y \in 0..(h - 1) :
    ~OnSegment(Point(Num(x), Num(y)), b, 1, Len(b))

(***************************************************************************)
(* C22 as stated: after respawn(w, h, body), for a body that leaves a cell *)
(* of the grid free, the food is on a cell of the grid and on no segment   *)
(* of the body.                                                            *)
(***************************************************************************)
C22_RespawnAvoidsBody ==
  [][ (/\ lastOp'.name = "respawn"
       /\ LeavesACellFree(body, lastOp'.gameWidth, lastOp'.gameHeight))
        => /\ InsideGridOf(food', lastOp'.gameWidth, lastOp'.gameHeight)
           /\ ~OnSegment(food', body, 1, Len(body)) ]_vars

(***************************************************************************)
(* C22 amended: after respawn(w, h, body) the food is on a cell of the     *)
(* grid; it is on no segment of the body unless all w * h samples drawn    *)
(* fell on the body, and then it is on the last of them, free cell or not. *)
(***************************************************************************)
C22_RespawnAvoidsBodyUnlessExhausted ==
  [][ lastOp'.name = "respawn"
        => LET w == lastOp'.gameWidth
               h == lastOp'.gameHeight
               draws == lastOp'.draws
               allOnBody == \A i \in 1..(w * h) :
                              OnSegment(draws[i], body, 1, Len(body))
           IN /\ InsideGridOf(food', w, h)
              /\ IF allOnBody
                   THEN food' = draws[w * h]
                   ELSE ~OnSegment(food', body, 1, Len(body)) ]_vars

\* respawn(2, 2, body) with the body on (2,0), (1,0), (0,0), the cells (0,1)
\* and (1,1) free: the four samples all fell on the body and the food is on
\* the tail
C22_Witness ==
  /\ lastOp.name = "respawn"
  /\ lastOp.gameWidth = 2
  /\ lastOp.gameHeight = 2
  /\ lastOp.attempts = 4
  /\ SnakeHead = Point(Num(2), Num(0))
  /\ food = SnakeTail
  /\ LeavesACellFree(body, 2, 2)

(***************************************************************************)
(* C23: generateRandomPositionAvoidingSnake(w, h, body) ends for every     *)
(* body, one covering the whole grid included: it draws at least one and   *)
(* at most w * h samples, stops at the first sample that is not on the     *)
(* body, and when the w * h samples are used up the food stays on the last *)
(* one even if that is on the body.                                        *)
(***************************************************************************)
C23_ResamplingStopsWithinBudget ==
  [][ lastOp'.name = "respawn"
        => LET maxAttempts == lastOp'.gameWidth * lastOp'.gameHeight
               draws == lastOp'.draws
               attempts == lastOp'.attempts
               onBody(p) == \E i \in 1..Len(body) : body[i] = p
           IN /\ attempts >= 1
              /\ attempts <= maxAttempts
              /\ food' = draws[attempts]
              /\ \A i \in 1..(attempts - 1) : onBody(draws[i])
              /\ attempts < maxAttempts => ~onBody(food')
              /\ (\A i \in 1..maxAttempts : onBody(draws[i]))
                   => (attempts = maxAttempts /\ onBody(food')) ]_vars

\* respawn(3, 1, body) with the body on all three cells of the grid: three
\* samples were drawn and the food is on the body
C23_Witness ==
  /\ lastOp.name = "respawn"
  /\ lastOp.gameWidth = 3
  /\ lastOp.gameHeight = 1
  /\ lastOp.attempts = 3
  /\ ~LeavesACellFree(body, 3, 1)
  /\ OnSegment(food, body, 1, Len(body))

(***************************************************************************)
(* C24: isConsumedBy(snake) is true exactly when the food position equals  *)
(* the position of the snake's head; food on another segment of the body   *)
(* is not consumed. The call changes neither the food nor the snake.       *)
(***************************************************************************)
C24_ConsumedOnlyOnTheHead ==
  [][ lastOp'.name = "isConsumedBy"
        => /\ lastOp'.result <=> (food = SnakeHead)
           /\ (\E i \in 2..Len(body) : body[i] = food) => ~lastOp'.result
           /\ food' = food
           /\ body' = body
           /\ direction' = direction
           /\ growthPending' = growthPending ]_vars

\* isConsumedBy has returned false for a food at (10,5) under the second
\* segment of a snake whose head is at (11,5)
C24_Witness ==
  /\ lastOp.name = "isConsumedBy"
  /\ ~lastOp.result
  /\ food = Point(Num(10), Num(5))
  /\ body[2] = food
  /\ SnakeHead = Point(Num(11), Num(5))

(***************************************************************************)
(* C25: start() on a loop that is running changes nothing: isRunning,      *)
(* isPaused and lastFrameTime keep their values (a paused loop stays       *)
(* paused), no callback is invoked and no frame is scheduled in addition.  *)
(***************************************************************************)
C25_StartIsIdempotent ==
  [][ (lastOp'.name = "start" /\ state.isRunning)
        => /\ state' = state
           /\ frames' = frames
           /\ animationFrameId' = animationFrameId
           /\ nextFrameId' = nextFrameId
           /\ stack' = stack ]_vars

\* start() was called on a running, paused loop between two frames: it is
\* still paused, with its one frame scheduled
C25_Witness ==
  /\ lastOp.name = "start"
  /\ lastOp.wasRunning
  /\ lastOp.wasPaused
  /\ state.isRunning
  /\ state.isPaused
  /\ stack = <<>>
  /\ Cardinality(frames) = 1

(***************************************************************************)
(* C26: once stop() has been called, at any point, from inside the update  *)
(* or render callback of the frame in progress included, no frame callback *)
(* remains scheduled and the stored handle is null (until the loop is      *)
(* started again).                                                         *)
(***************************************************************************)
C26_StoppedLoopHoldsNoFrame ==
  ~state.isRunning => (frames = {} /\ animationFrameId = 0)

\* stop() was called from a callback of the frame in progress; loop() went on
\* to its end and requested a frame, whose handle the stopped loop now holds
C26_Reached ==
  /\ lastOp.name = "return"
  /\ lastOp.scheduled
  /\ ~state.isRunning
  /\ stack = <<>>
  /\ animationFrameId # 0
  /\ animationFrameId \in frames

(***************************************************************************)
(* C27: stop() can be called in any state (before start(), while running,  *)
(* while paused, twice in a row); after it isRunning and isPaused are      *)
(* false and the stored handle is null, and a stop() right after a stop()  *)
(* changes nothing.                                                        *)
(***************************************************************************)
C27_StopAlwaysStops ==
  [][ lastOp'.name = "stop"
        => /\ ~state'.isRunning
           /\ ~state'.isPaused
           /\ animationFrameId' = 0
           /\ lastOp.name = "stop"
                => /\ state' = state
                   /\ frames' = frames
                   /\ animationFrameId' = animationFrameId
                   /\ stack' = stack ]_vars

\* stop() on a loop that was never started and had been paused
C27_Witness ==
  /\ lastOp.name = "stop"
  /\ lastOp.wasPaused
  /\ ~lastOp.wasRunning
  /\ nextFrameId = 1
  /\ stack = <<>>
  /\ ~state.isPaused

(***************************************************************************)
(* C28: after stop() neither callback is invoked again until a fresh       *)
(* start(): every step that invokes the update or the render callback      *)
(* leaves the loop running, and pause() and resume() never change          *)
(* isRunning.                                                              *)
(***************************************************************************)
C28_NoCallbackAfterStop ==
  [][ /\ lastOp'.invoked # "" => state'.isRunning
      /\ lastOp'.name \in {"pause", "resume"}
           => state'.isRunning = state.isRunning ]_vars

\* the render callback is invoked in a loop that the update callback of the
\* same frame has stopped
C28_Reached ==
  /\ lastOp.name = "return"
  /\ lastOp.invoked = "render"
  /\ lastOp.inCallback = "update"
  /\ ~lastOp.wasRunning
  /\ ~state.isRunning

(***************************************************************************)
(* C29: pause() sets isPaused and leaves isRunning as it was; a frame that *)
(* fires while the loop is running and paused invokes neither the update   *)
(* nor the render callback and requests the next frame.                    *)
(***************************************************************************)
C29_PausedFramesInvokeNothing ==
  [][ /\ lastOp'.name = "pause"
           => /\ state'.isPaused
              /\ state'.isRunning = state.isRunning
      /\ (lastOp'.name = "frame" /\ state.isRunning /\ state.isPaused)
           => /\ lastOp'.invoked = ""
              /\ stack' = <<>>
              /\ lastOp'.scheduled
              /\ animationFrameId' \in frames'
              /\ state'.isRunning /\ state'.isPaused ]_vars

\* a second frame in a row has fired in a running, paused loop
C29_Witness ==
  /\ lastOp.name = "frame"
  /\ lastOp.wasRunning
  /\ lastOp.wasPaused
  /\ lastOp.scheduled
  /\ state.isPaused
  /\ nextFrameId >= 4

(***************************************************************************)
(* C30: resume() on a running loop clears isPaused and sets lastFrameTime  *)
(* to the current time, so every delta passed to the update callback after *)
(* it is at most the time elapsed since the resume(); resume() on a loop   *)
(* that is not running changes nothing, so a pause() from before start()   *)
(* stays in effect and isRunning stays false.                              *)
(***************************************************************************)
C30_ResumeRecapturesTimeOrigin ==
  [][ /\ (lastOp'.name = "resume" /\ state.isRunning)
           => /\ state'.isRunning
              /\ ~state'.isPaused
              /\ state'.lastFrameTime = now
              /\ state'.deltaTime = state.deltaTime
      /\ (lastOp'.name = "resume" /\ ~state.isRunning)
           => /\ state' = state
              /\ frames' = frames
              /\ animationFrameId' = animationFrameId
      /\ (lastOp'.invoked = "update" /\ resumedAt # -1)
           => lastOp'.deltaTime <= now - resumedAt ]_vars

\* the first frame after a resume() of a paused loop: the update callback
\* gets the 50 ms since the resume()
C30_Witness ==
  /\ lastOp.name = "frame"
  /\ lastOp.invoked = "update"
  /\ lastOp.wasRunning
  /\ ~lastOp.wasPaused
  /\ resumedAt > 0
  /\ now - resumedAt = 50
  /\ lastOp.deltaTime = 50

(***************************************************************************)
(* C31: every delta passed to the update callback is the smaller of the    *)
(* time elapsed since lastFrameTime (the previous frame, or the start() or *)
(* resume() after it) and 100 ms: it is never above 100 ms, and it is the  *)
(* elapsed time itself when that is at most 100 ms.                        *)
(***************************************************************************)
C31_DeltaIsElapsedTimeCappedAt100 ==
  [][ lastOp'.invoked = "update"
        => /\ lastOp'.deltaTime <= 100
           /\ lastOp'.deltaTime >= 0
           /\ state'.deltaTime = lastOp'.deltaTime
           /\ lastOp'.name = "frame"
                => /\ now - state.lastFrameTime <= 100
                     => lastOp'.deltaTime = now - state.lastFrameTime
                   /\ now - state.lastFrameTime > 100
                     => lastOp'.deltaTime = 100
           /\ lastOp'.name = "start" => lastOp'.deltaTime = 0 ]_vars

\* a frame 150 ms or more after the one before it: update gets 100 ms
C31_Witness ==
  /\ lastOp.name = "frame"
  /\ lastOp.invoked = "update"
  /\ lastOp.elapsed >= 150
  /\ lastOp.deltaTime = 100

(***************************************************************************)
(* C32: a run of loop() in a running, unpaused loop invokes the update     *)
(* callback once with the delta of that run and schedules nothing yet;     *)
(* when update returns the render callback is invoked, and only then;      *)
(* when render returns exactly one frame is requested.  The render         *)
(* callback is never invoked except on the return of the update callback   *)
(* of the same run.                                                        *)
(***************************************************************************)
C32_UpdateThenRenderThenSchedule ==
  [][ /\ (lastOp'.name = "frame" /\ state.isRunning /\ ~state.isPaused)
           => /\ lastOp'.invoked = "update"
              /\ lastOp'.deltaTime = state'.deltaTime
              /\ stack' = <<"update">>
              /\ ~lastOp'.scheduled
              /\ frames' \subseteq frames
              /\ nextFrameId' = nextFrameId
      /\ (lastOp'.name = "start" /\ ~state.isRunning)
           => /\ lastOp'.invoked = "update"
              /\ stack' = <<"update">> \o stack
              /\ ~lastOp'.scheduled
              /\ frames' = frames
      /\ lastOp'.invoked = "render"
           => /\ lastOp'.name = "return"
              /\ stack # <<>> /\ stack[1] = "update"
              /\ stack' = <<"render">> \o Tail(stack)
              /\ frames' = frames
              /\ nextFrameId' = nextFrameId
      /\ (lastOp'.name = "return" /\ stack # <<>> /\ stack[1] = "update")
           => lastOp'.invoked = "render"
      /\ (lastOp'.name = "return" /\ stack # <<>> /\ stack[1] = "render")
           => /\ lastOp'.invoked = ""
              /\ lastOp'.scheduled
              /\ stack' = Tail(stack)
              /\ frames' = frames \cup {animationFrameId'}
              /\ animationFrameId' \notin frames
              /\ nextFrameId' = nextFrameId + 1
      /\ lastOp'.invoked = "update" => lastOp'.name \in {"frame", "start"}
    ]_vars

\* the second frame of a running loop has gone through update and render and
\* has requested the third
C32_Witness ==
  /\ lastOp.name = "return"
  /\ lastOp.inCallback = "render"
  /\ lastOp.scheduled
  /\ lastOp.wasRunning
  /\ ~lastOp.wasPaused
  /\ stack = <<>>
  /\ Cardinality(frames) = 1
  /\ nextFrameId = 4

(***************************************************************************)
(* C34: whatever keys are pressed between two ticks, the direction a tick  *)
(* moves in is never the opposite of the direction the snake had before    *)
(* the tick, which is the direction of the previous move, since only a     *)
(* tick (or resetGame) changes the direction: key events leave it alone.   *)
(* The head therefore never moves onto the segment behind it.              *)
(***************************************************************************)
C34_NoReversalBetweenMoves ==
  [][ /\ TickStep
           => /\ direction' # Opposite(direction)
              /\ body' # body => ~SamePoint(body'[1], body[2])
      /\ lastOp'.name \notin {"update", "resetGame"}
           => direction' = direction ]_vars

\* a tick after an earlier move finds the reverse of the snake's direction
\* queued, keeps the direction and moves on
C34_Witness ==
  /\ lastOp.name = "update"
  /\ lastOp.pendingDirection = Opposite(lastOp.oldDirection)
  /\ lastOp.oldDirection = "up"
  /\ direction = "up"
  /\ ~gameOver
  /\ lastMoveTime = 0
  /\ ticks >= 2
  /\ body[1] = Ahead(body[2], "up")

(***************************************************************************)
(* C35: a tick at which no growth is pending and the cell ahead of the     *)
(* head in the finalized direction is the cell of the tail, inside the     *)
(* grid, does not set gameOver, and the head moves into that cell.         *)
(***************************************************************************)
C35_VacatingTailIsNoCollision ==
  [][ ( /\ TickStep
        /\ growthPending = 0
        /\ SamePoint(Ahead(body[1], direction'), body[Len(body)])
        /\ InsideGrid(body[Len(body)]) )
        => /\ ~gameOver'
           /\ SamePoint(body'[1], body[Len(body)]) ]_vars

\* a tick has ended the game with no growth pending and the cell of the tail
\* ahead of the head
C35_Reached ==
  /\ lastOp.name = "update"
  /\ gameOver
  /\ growthPending = 0
  /\ InsideGrid(body[Len(body)])
  /\ SamePoint(Ahead(body[1], direction), body[Len(body)])

(***************************************************************************)
(* C36: with the game driven by key events and update calls from the       *)
(* initial state, in every reachable state every body segment is a cell of *)
(* the 20x15 grid and no two segments are on the same cell, before and     *)
(* after game over and with or without growth pending.                     *)
(***************************************************************************)
C36_BodyInsideGridAndSimple ==
  /\ \A i \in 1..Len(body) : InsideGrid(body[i])
  /\ \A i, j \in 1..Len(body) : i # j => body[i] # body[j]

\* a grown snake with its head in the top row, growth pending, stopped by the
\* wall
C36_Witness ==
  /\ gameOver
  /\ growthPending > 0
  /\ Len(body) = 4
  /\ body[1].y = Num(0)
  /\ direction = "up"

(***************************************************************************)
(* C37: an update call moves the snake by one cell at most, whatever its   *)
(* deltaTime; a call that moves leaves the accumulated time at 0, the time *)
(* beyond the interval being dropped; and after every update call that     *)
(* leaves gameOver false the accumulated time is at least 0 and below the  *)
(* move interval of 200 ms.                                                *)
(***************************************************************************)
C37_OneMovePerUpdateAndAccumulatorBelowInterval ==
  [][ lastOp'.name = "update"
        => /\ body' # body
                => /\ body'[1] = Ahead(body[1], direction')
                   /\ \A i \in 2..Len(body') : body'[i] = body[i - 1]
                   /\ lastMoveTime' = 0
           /\ ~gameOver'
                => /\ lastMoveTime' >= 0
                   /\ lastMoveTime' < SNAKE_MOVE_INTERVAL ]_vars

\* update(0.45) with 150 ms accumulated: three intervals have passed, the
\* snake has moved one cell and the accumulated time is 0
C37_Witness ==
  /\ lastOp.name = "update"
  /\ lastOp.deltaTime = 450
  /\ ~gameOver
  /\ lastMoveTime = 0
  /\ ticks = 2
  /\ body[1] = Point(Num(12), Num(5))

(***************************************************************************)
(* C39: a game that gets update calls and no key event ends: from the      *)
(* initial state the snake moves right once per tick, nine times, to       *)
(* x = 19; the tenth tick sets gameOver and does not move it; and gameOver *)
(* is reached in every run in which the update calls keep coming, after    *)
(* which the snake stays where it is.                                      *)
(***************************************************************************)
C39_IdleGameEndsAtTheTenthTick ==
  /\ [](IF ticks <= 9
          THEN /\ ~gameOver
               /\ body[1] = Point(Num(10 + ticks), Num(5))
               /\ direction = "right"
          ELSE /\ gameOver
               /\ ticks = 10
               /\ body[1] = Point(Num(19), Num(5)))
  /\ <>[](gameOver /\ body[1] = Point(Num(19), Num(5)))

\* the tenth tick has ended the game with the head in the last column
C39_Witness ==
  /\ lastOp.name = "update"
  /\ gameOver
  /\ ticks = 10
  /\ body = <<Point(Num(19), Num(5)), Point(Num(18), Num(5)),
              Point(Num(17), Num(5))>>
  /\ lastMoveTime >= SNAKE_MOVE_INTERVAL

(***************************************************************************)
(* C38: under every interleaving of start(), stop(), pause() and resume()  *)
(* with the frames, calls from inside the callbacks included, at most one  *)
(* frame callback is scheduled at any time and at most one run of loop()   *)
(* is in progress, so that update is invoked once per display frame at     *)
(* most.                                                                   *)
(***************************************************************************)
C38_OneFrameChain ==
  /\ Cardinality(frames) <= 1
  /\ Len(stack) <= 1

\* a running loop with two frame callbacks scheduled, both of which will run
\* update and render in the next display frame
C38_Reached ==
  /\ state.isRunning
  /\ ~state.isPaused
  /\ stack = <<>>
  /\ Cardinality(frames) = 2

(***************************************************************************)
(* C33: when the page has no canvas element, or the canvas gives no 2D     *)
(* context, the construction of the CanvasManager fails, the Game is left  *)
(* without a game loop, and the loop is never started: at no time is it    *)
(* running, is a frame scheduled or a callback invoked, and the snake      *)
(* stays where the constructor put it, whatever keys are pressed, however  *)
(* much time passes and whether or not start() is called.                  *)
(***************************************************************************)
C33_FailedInitializationNeverStarts ==
  (~document.canvasElement \/ ~document.context)
    => /\ gameLoop = "undefined"
       /\ ~state.isRunning
       /\ frames = {}
       /\ animationFrameId = 0
       /\ stack = <<>>
       /\ lastOp.invoked = ""
       /\ lastOp.name # "update"
       /\ body = createInitialBody(Num(10), Num(5))
       /\ direction = "right"
       /\ ticks = 0
       /\ lastMoveTime = 0
       /\ ~gameOver

\* a canvas without a 2D context: a key has been pressed, time has passed and
\* the page has called start(), which threw
C33_Witness ==
  /\ document.canvasElement
  /\ ~document.context
  /\ lastOp.name = "start"
  /\ lastOp.threw
  /\ pendingDirection = "up"
  /\ now >= 200

\* with the canvas and its context the loop does start and moves the snake
C33_LoopRunsOtherwise ==
  /\ document.canvasElement
  /\ document.context
  /\ ticks > 0
  /\ body[1] = Point(Num(11), Num(5))
====
